---- MODULE Spec2Model ----
(***************************************************************************)
(* Frame-sampling and detection-aggregation pipeline of the medibox        *)
(* dashboard: VideoProcessor.extract_frames (src/video_processor.py), the  *)
(* analysis entry points analyze_video / analyze_sample_video (src/app.py) *)
(* and the result store (src/database.py).                                 *)
(*                                                                         *)
(* Rational numbers (fps, timestamps, averages) are kept as numerator and  *)
(* denominator: fps is counted in units of 1/FpsDen frames per second.     *)
(***************************************************************************)
EXTENDS Integers, Sequences, FiniteSets, TLC

VARIABLES
    pc,                \* position of the running analysis
    video,             \* the video source handed to cv2.VideoCapture
    interval_seconds,  \* extract_frames argument
    cap,               \* state of the capture handle
    frame_interval,    \* extract_frames local
    frame_number,      \* extract_frames local
    frames_data,       \* extract_frames local / return value
    results,           \* analyze_* local
    session,           \* st.session_state
    video_analyses,    \* table video_analyses (committed rows, insertion order)
    frame_detections,  \* table frame_detections (committed rows, insertion order)
    id_seq,            \* primary-key sequence of video_analyses
    run,               \* what the current / last run or call did (observation)
    runs,              \* number of runs or calls started
    clock,             \* datetime.utcnow(), in ticks
    arg,               \* argument of the last direct call
    ret,               \* what the last direct call returned or raised
    db_sessions,       \* the store call each concurrent caller is in
    users,             \* table users (committed rows)
    auth               \* st.session_state: authenticated, user_info

vars == <<pc, video, interval_seconds, cap, frame_interval, frame_number,
          frames_data, results, session, video_analyses, frame_detections,
          id_seq, run, runs, clock, arg, ret, db_sessions, users, auth>>

\* the variables of the concurrent callers and of the accounts
appVars == <<db_sessions, users, auth>>

\* the variables of the direct calls, untouched by the pipeline
aux == <<clock, arg, ret, appVars>>

----------------------------------------------------------------------------
(* Bounds *)

FpsDen == 2
MaxFpsNum == 4
MaxTotalFrames == 3
MaxInterval == 2
MaxEmit == 7
MaxDet == 1
MaxRuns == 2
MaxFrames == 2
MaxLen == 3
MaxCount == 3
MaxOps == 3
MaxClock == 1
MaxLimit == 2
MaxPreds == 2
MaxAuthOps == 4
MaxEvents == 6

----------------------------------------------------------------------------
(* Helpers *)

None == "None"

NoVideo == [opened |-> FALSE, fps |-> 0, total_frames |-> 0, readable |-> 0]

\* Scenario A: 30 seconds at 30 fps, every frame readable.
ScenarioA == [opened |-> TRUE, fps |-> 30 * FpsDen, total_frames |-> 900,
              readable |-> 900]

Max2(a, b) == IF a >= b THEN a ELSE b

\* int(x) of a float n/d (d > 0): truncation towards zero
IntTrunc(n, d) == IF n >= 0 THEN n \div d ELSE -((-n) \div d)

\* Python round(x) of a non-negative n/d: to nearest, ties to even
PyRound(n, d) ==
    LET q == n \div d
        r == n % d
    IN  IF 2 * r < d THEN q
        ELSE IF 2 * r > d THEN q + 1
        ELSE IF q % 2 = 0 THEN q ELSE q + 1

FrameIntervalPlusOne(fps, interval) == IntTrunc(fps * interval, FpsDen) + 1

\* frame_interval = int(fps * interval_seconds)
FrameInterval(fps, interval) == IntTrunc(fps * interval, FpsDen)

\* timestamp = frame_number / fps
Timestamp(fn, fps) == [num |-> fn * FpsDen, den |-> fps]

\* cap.read() after cap.set(POS_FRAMES, fn)
ReadOk(v, fn) == fn < v.readable

Get(d, k, default) == IF k \in DOMAIN d THEN d[k] ELSE default

----------------------------------------------------------------------------
(* Detector: LandingAIClient.detect_objects *)

Detection == [label |-> "medibox", score |-> 1, bounding_box |-> <<0, 0, 1, 1>>]

\* the list detect_objects returns when it finds n objects
Detections(n) == [k \in 1..n |-> Detection]

\* detect_objects either raises (written -1) or returns a list of 0..MaxDet
\* detections
DetectRaises == -1

DetectOutcomes == {DetectRaises} \cup (0..MaxDet)

----------------------------------------------------------------------------
(* Aggregation: summary statistics of save_analysis_results *)

RECURSIVE TotalDetections(_)
\* sum(r['medibox_count'] for r in results)
TotalDetections(res) ==
    IF res = <<>> THEN 0
    ELSE res[1]["medibox_count"] + TotalDetections(Tail(res))

AvgPerFrameFloorDiv(res) ==
    IF Len(res) > 0 THEN [num |-> TotalDetections(res) \div Len(res), den |-> 1]
    ELSE [num |-> 0, den |-> 1]

\* total_detections / total_frames if total_frames > 0 else 0
AvgPerFrame(res) ==
    IF Len(res) > 0 THEN [num |-> TotalDetections(res), den |-> Len(res)]
    ELSE [num |-> 0, den |-> 1]

RECURSIVE MaxFrom(_, _)
MaxFrom(res, acc) ==
    IF res = <<>> THEN acc
    ELSE MaxFrom(Tail(res), IF res[1]["medibox_count"] > acc
                            THEN res[1]["medibox_count"] ELSE acc)

RECURSIVE MinFrom(_, _)
MinFrom(res, acc) ==
    IF res = <<>> THEN acc
    ELSE MinFrom(Tail(res), IF res[1]["medibox_count"] < acc
                            THEN res[1]["medibox_count"] ELSE acc)

\* max(r['medibox_count'] for r in results) if results else 0
MaxInFrame(res) ==
    IF res # <<>> THEN MaxFrom(Tail(res), res[1]["medibox_count"]) ELSE 0

MinInFrameAsMax(res) ==
    IF res # <<>> THEN MaxFrom(Tail(res), res[1]["medibox_count"]) ELSE 0

\* min(r['medibox_count'] for r in results) if results else 0
MinInFrame(res) ==
    IF res # <<>> THEN MinFrom(Tail(res), res[1]["medibox_count"]) ELSE 0

----------------------------------------------------------------------------
(* Result store: save_analysis_results *)

\* a commit of the session may fail (connection lost, constraint, ...)
DbFaults == {"none", "commit1", "commit2"}

\* VideoAnalysis(...) built at lines 81-92
VideoAnalysisRow(id, interval, res, now) ==
    [id |-> id,
     created_at |-> now,
     frame_interval |-> interval,
     total_frames |-> Len(res),
     total_detections |-> TotalDetections(res),
     avg_per_frame |-> AvgPerFrame(res),
     max_in_frame |-> MaxInFrame(res),
     min_in_frame |-> MinInFrame(res),
     analysis_results |-> res]

\* FrameDetection(...) built at lines 100-107
FrameDetectionRow(id, result) ==
    [video_analysis_id |-> id,
     frame_number |-> result["frame_number"],
     timestamp_seconds |-> result["timestamp"],
     medibox_count |-> result["medibox_count"],
     confidence_scores |->
        [k \in DOMAIN Get(result, "detections", <<>>) |->
            Get(result["detections"][k], "score", 0)],
     bounding_boxes |->
        [k \in DOMAIN Get(result, "detections", <<>>) |->
            Get(result["detections"][k], "bbox", <<>>)]]

\* result['frame_number'] raises KeyError for a result without that key
ChildRowsBuildable(res) ==
    \A k \in DOMAIN res : "frame_number" \in DOMAIN res[k]

\* The whole call: what is committed, and whether it returns or raises.
SaveAnalysisResults(va, fd, seq, interval, res, fault, now) ==
    IF fault = "commit1"
    THEN \* first commit fails: rollback, raise
         [video_analyses |-> va, frame_detections |-> fd, id_seq |-> seq,
          outcome |-> "raised", id |-> 0]
    ELSE LET id == seq + 1
             va1 == Append(va, VideoAnalysisRow(id, interval, res, now))
         IN  IF ~ChildRowsBuildable(res) \/ fault = "commit2"
             THEN \* the parent row is already committed; rollback undoes
                  \* only the pending child rows
                  [video_analyses |-> va1, frame_detections |-> fd,
                   id_seq |-> id, outcome |-> "raised", id |-> 0]
             ELSE [video_analyses |-> va1,
                   frame_detections |->
                      fd \o [k \in DOMAIN res |-> FrameDetectionRow(id, res[k])],
                   id_seq |-> id, outcome |-> "returned", id |-> id]

\* db.query(VideoAnalysis).filter(VideoAnalysis.id == analysis_id).first()
GetAnalysisById(va, analysis_id) ==
    IF \E k \in DOMAIN va : va[k].id = analysis_id
    THEN va[CHOOSE k \in DOMAIN va : va[k].id = analysis_id]
    ELSE None

----------------------------------------------------------------------------
(* Result store: delete_analysis, get_analysis_history *)

Ids(va) == {va[k].id : k \in DOMAIN va}

\* the statement that fails, if any
DeleteFaults == {"none", "delete", "commit"}

DeleteAnalysisAlwaysTrue(va, fd, analysis_id, fault) ==
    LET KeepChild(r) == r.video_analysis_id # analysis_id
        KeepParent(r) == r.id # analysis_id
    IN  IF fault = "delete" \/ (fault = "commit" /\ analysis_id \in Ids(va))
        THEN [video_analyses |-> va, frame_detections |-> fd,
              outcome |-> "raised", value |-> FALSE]
        ELSE [video_analyses |-> SelectSeq(va, KeepParent),
              frame_detections |-> SelectSeq(fd, KeepChild),
              outcome |-> "returned", value |-> TRUE]

DeleteAnalysisTwoCommits(va, fd, analysis_id, fault) ==
    LET KeepChild(r) == r.video_analysis_id # analysis_id
        KeepParent(r) == r.id # analysis_id
    IN  IF fault = "delete"
        THEN [video_analyses |-> va, frame_detections |-> fd,
              outcome |-> "raised", value |-> FALSE]
        ELSE IF analysis_id \notin Ids(va)
        THEN [video_analyses |-> va, frame_detections |-> fd,
              outcome |-> "returned", value |-> FALSE]
        ELSE IF fault = "commit"
        THEN [video_analyses |-> va,
              frame_detections |-> SelectSeq(fd, KeepChild),
              outcome |-> "raised", value |-> FALSE]
        ELSE [video_analyses |-> SelectSeq(va, KeepParent),
              frame_detections |-> SelectSeq(fd, KeepChild),
              outcome |-> "returned", value |-> TRUE]

\* The whole call: the child rows and the parent row are deleted in one
\* transaction, committed only when the parent row was found; an exception
\* rolls the transaction back, and so does close() without a commit.
DeleteAnalysis(va, fd, analysis_id, fault) ==
    LET KeepChild(r) == r.video_analysis_id # analysis_id
        KeepParent(r) == r.id # analysis_id
    IN  IF fault = "delete"
        THEN \* the DELETE of the child rows fails: rollback, raise
             [video_analyses |-> va, frame_detections |-> fd,
              outcome |-> "raised", value |-> FALSE]
        ELSE IF analysis_id \notin Ids(va)
        THEN \* no parent row: return False, nothing was committed
             [video_analyses |-> va, frame_detections |-> fd,
              outcome |-> "returned", value |-> FALSE]
        ELSE IF fault = "commit"
        THEN \* the commit fails: rollback, raise
             [video_analyses |-> va, frame_detections |-> fd,
              outcome |-> "raised", value |-> FALSE]
        ELSE [video_analyses |-> SelectSeq(va, KeepParent),
              frame_detections |-> SelectSeq(fd, KeepChild),
              outcome |-> "returned", value |-> TRUE]

Min2(a, b) == IF a <= b THEN a ELSE b

\* the orders in which the rows of va may be listed
RowOrders(va) ==
    {p \in [DOMAIN va -> DOMAIN va] :
        \A i, j \in DOMAIN va : i # j => p[i] # p[j]}

GetAnalysisHistoryAscending(va, limit) ==
    {[k \in 1..Min2(limit, Len(va)) |-> va[p[k]]] :
        p \in {q \in RowOrders(va) :
                 \A i, j \in DOMAIN va :
                    i < j => va[q[i]].created_at <= va[q[j]].created_at}}

\* query(VideoAnalysis).order_by(created_at.desc()).limit(limit).all():
\* every list the database may return (rows with equal created_at come in
\* any order)
GetAnalysisHistory(va, limit) ==
    {[k \in 1..Min2(limit, Len(va)) |-> va[p[k]]] :
        p \in {q \in RowOrders(va) :
                 \A i, j \in DOMAIN va :
                    i < j => va[q[i]].created_at >= va[q[j]].created_at}}

----------------------------------------------------------------------------
(* LandingAIClient.detect_objects, remote variant: the response handling *)

\* JSON values are tagged with their type; a dict carries its entries
JsonDict(f) == [type |-> "dict", fields |-> f]
JsonList == [type |-> "list"]
NotJson == [type |-> "invalid"]

IsDict(j) == j.type = "dict"

Coordinates == [xmin |-> 1, ymin |-> 2, xmax |-> 3, ymax |-> 4]

\* the entries of 'backbonepredictions' a response may carry
PredData ==
    {JsonDict([labelName |-> "medibox", score |-> 90, coordinates |-> Coordinates]),
     JsonDict([labelName |-> "medibox", coordinates |-> Coordinates]),
     JsonDict([labelName |-> "medibox", score |-> 90]),
     JsonDict([score |-> 90, coordinates |-> [xmin |-> 1, ymin |-> 2]]),
     JsonList}

\* the values of 'backbonepredictions': a mapping (its entries in order of
\* their detection ids) or something else
Predictions ==
    {[type |-> "dict", items |-> ps] :
        ps \in UNION {[1..n -> PredData] : n \in 0..MaxPreds}}
    \cup {[type |-> "list", items |-> <<>>]}

\* the bodies of a response
Bodies ==
    {NotJson, JsonList, JsonDict([message |-> [type |-> "string", items |-> <<>>]])}
    \cup {JsonDict([backbonepredictions |-> p]) : p \in Predictions}

StatusCodes == {200, 404, 500}

Responses == [status_code : StatusCodes, body : Bodies]

\* lines 96-106: the detection built from one dict entry (scores in
\* hundredths: the default 1.0 is 100)
DetectionOf(pred_data) ==
    LET f == pred_data.fields
    IN  [label |-> Get(f, "labelName", "medibox"),
         score |-> Get(f, "score", 100),
         bounding_box |->
            IF "coordinates" \in DOMAIN f
            THEN LET coords == f.coordinates
                 IN  <<Get(coords, "xmin", 0), Get(coords, "ymin", 0),
                       Get(coords, "xmax", 0), Get(coords, "ymax", 0)>>
            ELSE <<>>]

\* lines 84-111, with the handler of lines 115-117: the outcome of the call
\* for a response
DetectObjects(response) ==
    LET Raised == [outcome |-> "raised", value |-> <<>>]
        body == response.body
    IN  IF response.status_code # 200 THEN Raised
        ELSE IF body = NotJson THEN Raised
        ELSE IF ~(IsDict(body) /\ "backbonepredictions" \in DOMAIN body.fields)
        THEN [outcome |-> "returned", value |-> <<>>]
        ELSE LET preds == body.fields.backbonepredictions
                 IsDictEntry(p) == IsDict(p)
             IN  IF ~IsDict(preds) THEN Raised
                 ELSE [outcome |-> "returned",
                       value |-> [k \in DOMAIN SelectSeq(preds.items, IsDictEntry) |->
                                    DetectionOf(SelectSeq(preds.items, IsDictEntry)[k])]]

----------------------------------------------------------------------------
(* utils.format_timestamp and utils.export_results_to_csv *)

\* format_timestamp(seconds): <<MM, SS>>, or <<HH, MM, SS>> from one hour on
FormatTimestamp(ts) ==
    LET total_seconds == IntTrunc(ts.num, ts.den)
        hours == total_seconds \div 3600
        minutes == (total_seconds % 3600) \div 60
        seconds == total_seconds % 60
    IN  IF hours > 0 THEN <<hours, minutes, seconds>> ELSE <<minutes, seconds>>

CsvHeader ==
    <<"Frame_Index", "Timestamp_Seconds", "Timestamp_Formatted",
      "Playdough_Count", "Detection_Details">>

\* lines 241-244: the detail entries of one frame result
DetectionDetails(result) ==
    LET dets == Get(result, "detections", <<>>)
    IN  [i \in DOMAIN dets |->
            [object |-> i,
             bbox |-> SubSeq(Get(dets[i], "bounding_box", <<>>), 1, 4),
             conf |-> Get(dets[i], "score", 0)]]

\* the reads of a frame result that raise: bbox[0..3] (IndexError) and the
\* three subscripted keys (KeyError)
RowRaises(result) ==
    \/ \E i \in DOMAIN Get(result, "detections", <<>>) :
          Len(Get(Get(result, "detections", <<>>)[i], "bounding_box", <<>>)) < 4
    \/ ~({"frame_index", "timestamp", "playdough_count"} \subseteq DOMAIN result)

CsvRow(result) ==
    [frame_index |-> result.frame_index,
     timestamp |-> result.timestamp,
     formatted |-> FormatTimestamp(result.timestamp),
     count |-> result.playdough_count,
     details |-> DetectionDetails(result)]

ExportResultsToCsv(res) ==
    IF \E k \in DOMAIN res : RowRaises(res[k])
    THEN [outcome |-> "raised", header |-> <<>>, rows |-> <<>>]
    ELSE [outcome |-> "returned", header |-> CsvHeader,
          rows |-> [k \in DOMAIN res |-> CsvRow(res[k])]]

----------------------------------------------------------------------------
(* auth.py: the users table and its operations *)

\* the value None of an Optional[Dict]
NoneInfo == [none |-> TRUE]

Roles == {"viewer", "analyst", "admin"}

\* hash_password / verify_password: a hash verifies exactly the password it
\* was made from
HashPassword(password) == [bcrypt |-> password]

VerifyPassword(password, hashed_password) ==
    hashed_password = HashPassword(password)

\* User(...) of lines 73-79; last_login is None (-1) until the first login
UserRow(username, email, password, role) ==
    [username |-> username,
     email |-> email,
     hashed_password |-> HashPassword(password),
     role |-> role,
     is_active |-> TRUE,
     last_login |-> -1]

\* lines 56-89
CreateUser(us, username, email, password, role) ==
    IF \E k \in DOMAIN us : us[k].username = username \/ us[k].email = email
    THEN [users |-> us, value |-> FALSE]
    ELSE [users |-> Append(us, UserRow(username, email, password, role)),
          value |-> TRUE]

\* the dict returned by authenticate_user
UserInfo(row) ==
    [username |-> row.username, email |-> row.email, role |-> row.role,
     last_login |-> row.last_login]

\* lines 91-121: the query takes the first active row whose username or
\* email is the login name; without ORDER BY any matching row can be first.
\* The set of possible outcomes of the call.
AuthenticateUser(us, username_or_email, password, now) ==
    LET Matches == {k \in DOMAIN us :
                       /\ us[k].username = username_or_email
                             \/ us[k].email = username_or_email
                       /\ us[k].is_active}
    IN  IF Matches = {}
        THEN {[users |-> us, value |-> NoneInfo]}
        ELSE {IF VerifyPassword(password, us[k].hashed_password)
              THEN [users |-> [us EXCEPT ![k].last_login = now],
                    value |-> UserInfo([us[k] EXCEPT !.last_login = now])]
              ELSE [users |-> us, value |-> NoneInfo] : k \in Matches}

\* lines 169-186
UpdateUserRole(us, username, new_role) ==
    IF \E k \in DOMAIN us : us[k].username = username
    THEN [users |-> [k \in DOMAIN us |->
                        IF us[k].username = username
                        THEN [us[k] EXCEPT !.role = new_role] ELSE us[k]],
          value |-> TRUE]
    ELSE [users |-> us, value |-> FALSE]

\* lines 188-205
DeactivateUser(us, username) ==
    IF \E k \in DOMAIN us : us[k].username = username
    THEN [users |-> [k \in DOMAIN us |->
                        IF us[k].username = username
                        THEN [us[k] EXCEPT !.is_active = FALSE] ELSE us[k]],
          value |-> TRUE]
    ELSE [users |-> us, value |-> FALSE]

\* lines 207-231: the result of create_user is not looked at
CreateDefaultAdmin(us) ==
    IF ~\E k \in DOMAIN us : us[k].role = "admin"
    THEN [users |-> CreateUser(us, "admin", "admin@medibox.com", "admin123",
                               "admin").users,
          value |-> TRUE]
    ELSE [users |-> us, value |-> FALSE]

----------------------------------------------------------------------------
(* main.py: the /upload endpoint *)

\* str.endswith on a string given as its characters
EndsWith(str, suffix) ==
    /\ Len(str) >= Len(suffix)
    /\ SubSeq(str, Len(str) - Len(suffix) + 1, Len(str)) = suffix

DotJson == <<".", "j", "s", "o", "n">>

\* a body that is not UTF-8 text
NotUtf8 == [type |-> "bytes"]

\* lines 367-400. A request carries the file name, the body and whether
\* process_resume_data succeeds on it. HTTPException is an Exception, so the
\* one raised inside the try for a missing candidateName is caught by the
\* last handler.
UploadFileResponse(request) ==
    IF ~EndsWith(request.filename, DotJson)
    THEN [status_code |-> 400, detail |-> "File must be a JSON file"]
    ELSE IF request.body = NotUtf8
    THEN [status_code |-> 500, detail |-> "Processing error"]
    ELSE IF request.body = NotJson
    THEN [status_code |-> 400, detail |-> "Invalid JSON file format"]
    ELSE IF ~IsDict(request.body)
    THEN [status_code |-> 500, detail |-> "Processing error"]
    ELSE IF Get(request.body.fields, "candidateName", "") = ""
    THEN [status_code |-> 500, detail |-> "Processing error"]
    ELSE IF ~request.processing_ok
    THEN [status_code |-> 500, detail |-> "Processing error"]
    ELSE [status_code |-> 200, detail |-> "application/pdf"]

----------------------------------------------------------------------------
(* Observation of a run *)

NoRun == [entry |-> None, detect_calls |-> 0, failed |-> {}, ui |-> {},
          save_calls |-> 0, fault |-> None, save_outcome |-> None,
          save_id |-> 0]

\* no direct call made yet
NoCall == [op |-> None]

\* independent callers of the result store, each with its own session
Callers == {"a", "b"}

\* a caller that is in no store call
IdleSession == [op |-> "idle"]

NoSessions == [c \in Callers |-> IdleSession]

\* st.session_state before any login
NoAuth == [authenticated |-> FALSE, user_info |-> NoneInfo]

NoSession == [analysis_results |-> <<>>, processing_complete |-> FALSE,
              current_frame_index |-> 0]

Entries == {"upload", "sample"}

\* video sources of the sampler specification
SamplerVideos ==
    [opened : BOOLEAN, fps : 0..MaxFpsNum, total_frames : 0..MaxTotalFrames,
     readable : 0..MaxTotalFrames] \cup {ScenarioA}

\* intervals handed to extract_frames, which accepts any int
SamplerIntervals == (0..MaxInterval) \cup {5}

\* video sources of the pipeline specification
PipelineVideos ==
    [opened : BOOLEAN, fps : {FpsDen}, total_frames : {MaxFrames},
     readable : 0..MaxFrames]

PipelineIntervals == {1, 2}

\* video sources of the inspector specification: one frame per second,
\* no frame, one frame or MaxFrames frames readable
InspectorVideos ==
    [opened : {TRUE}, fps : {FpsDen}, total_frames : {MaxFrames},
     readable : {0, 1, MaxFrames}]

----------------------------------------------------------------------------
(* VideoProcessor.extract_frames *)

\* lines 25-42: open the capture, read the properties, enter the loop
OpenCapture(v, iv) ==
    /\ video' = v
    /\ interval_seconds' = iv
    /\ frames_data' = <<>>
    /\ frame_number' = 0
    /\ IF ~v.opened
       THEN /\ pc' = "extracted"
            /\ cap' = "unopened"
            /\ frame_interval' = 0
       ELSE /\ pc' = "extract"
            /\ cap' = "open"
            /\ frame_interval' = FrameInterval(v.fps, iv)

\* lines 44-67: one iteration of the sampling loop, and the return after it
ExtractIter ==
    /\ pc = "extract"
    /\ Len(frames_data) < MaxEmit
    /\ IF ~ReadOk(video, frame_number)
       THEN \* ret is False: break, release, return frames_data
            /\ pc' = "extracted"
            /\ cap' = "released"
            /\ frame_number' = 0
            /\ frame_interval' = 0
            /\ UNCHANGED frames_data
       ELSE IF video.fps = 0
       THEN \* frame_number / fps raises ZeroDivisionError: return []
            /\ pc' = "extracted"
            /\ frames_data' = <<>>
            /\ frame_number' = 0
            /\ frame_interval' = 0
            /\ UNCHANGED cap
       ELSE /\ frames_data' = Append(frames_data,
                                [frame |-> frame_number,
                                 frame_index |-> frame_number,
                                 timestamp |-> Timestamp(frame_number, video.fps)])
            /\ IF frame_number + frame_interval >= video.total_frames
               THEN /\ pc' = "extracted"
                    /\ cap' = "released"
                    /\ frame_number' = 0
                    /\ frame_interval' = 0
               ELSE /\ frame_number' = frame_number + frame_interval
                    /\ UNCHANGED <<pc, cap, frame_interval>>
    /\ UNCHANGED <<video, interval_seconds, results, session, video_analyses,
                   frame_detections, id_seq, run, runs>>
    /\ UNCHANGED aux

----------------------------------------------------------------------------
(* analyze_video / analyze_sample_video *)

\* entry of an analysis up to the call of extract_frames
AnalyzeStart(E, V, I) ==
    /\ pc = "idle"
    /\ runs < MaxRuns
    /\ \E e \in E, v \in V, iv \in I :
          /\ run' = [NoRun EXCEPT !.entry = e]
          /\ OpenCapture(v, iv)
    /\ runs' = runs + 1
    /\ results' = <<>>
    /\ UNCHANGED <<session, video_analyses, frame_detections, id_seq>>
    /\ UNCHANGED aux

CheckFramesNoReturn ==
    /\ pc = "extracted"
    /\ pc' = IF frames_data = <<>> THEN "detected" ELSE "detect"
    /\ UNCHANGED <<run, video, cap, interval_seconds, frame_interval,
                   frame_number, frames_data, results, session, video_analyses,
                   frame_detections, id_seq, runs>>
    /\ UNCHANGED aux

\* if not frames_data: st.error(...); return
CheckFrames ==
    /\ pc = "extracted"
    /\ IF frames_data = <<>>
       THEN /\ pc' = "idle"
            /\ run' = [run EXCEPT !.ui = @ \cup {"error: extract frames"}]
            /\ video' = NoVideo
            /\ interval_seconds' = 0
            /\ cap' = "none"
       ELSE /\ pc' = "detect"
            /\ UNCHANGED <<run, video, interval_seconds, cap>>
    /\ UNCHANGED <<frame_interval, frame_number, frames_data, results, session,
                   video_analyses, frame_detections, id_seq, runs>>
    /\ UNCHANGED aux

FrameResultCountAtLeastOne(i, frame_data, detections, count) ==
    [frame_index |-> i,
     timestamp |-> frame_data.timestamp,
     medibox_count |-> Max2(count, 1),
     detections |-> detections,
     frame |-> frame_data.frame]

\* the frame result appended for frame i (0-based) of frames_data
FrameResult(i, frame_data, detections, count) ==
    [frame_index |-> i,
     timestamp |-> frame_data.timestamp,
     medibox_count |-> count,
     detections |-> detections,
     frame |-> frame_data.frame]

DetectFrameSampleEarlyExit(out) ==
    LET i == Len(results)
        frame_data == frames_data[i + 1]
    IN  IF out = DetectRaises
        THEN /\ run' = [run EXCEPT !.detect_calls = @ + 1,
                                   !.failed = @ \cup {i},
                                   !.ui = @ \cup {"error: analysis"}]
             /\ session' = [session EXCEPT !.processing_complete = FALSE]
             /\ pc' = "idle"
             /\ results' = <<>>
             /\ frames_data' = <<>>
             /\ video' = NoVideo
             /\ interval_seconds' = 0
             /\ cap' = "none"
        ELSE /\ run' = [run EXCEPT !.detect_calls = @ + 1]
             /\ results' = Append(results,
                              FrameResult(i, frame_data, Detections(out), out))
             /\ pc' = "detected"
             /\ UNCHANGED <<session, frames_data, video, interval_seconds, cap>>

\* analyze_sample_video, lines 431-454: detect_objects is called outside any
\* per-frame try; an exception reaches the handler at lines 507-509
DetectFrameSample(out) ==
    LET i == Len(results)
        frame_data == frames_data[i + 1]
    IN  IF out = DetectRaises
        THEN /\ run' = [run EXCEPT !.detect_calls = @ + 1,
                                   !.failed = @ \cup {i},
                                   !.ui = @ \cup {"error: analysis"}]
             /\ session' = [session EXCEPT !.processing_complete = FALSE]
             /\ pc' = "idle"
             /\ results' = <<>>
             /\ frames_data' = <<>>
             /\ video' = NoVideo
             /\ interval_seconds' = 0
             /\ cap' = "none"
        ELSE /\ run' = [run EXCEPT !.detect_calls = @ + 1]
             /\ results' = Append(results,
                              FrameResult(i, frame_data, Detections(out), out))
             /\ pc' = IF i + 1 = Len(frames_data) THEN "detected" ELSE "detect"
             /\ UNCHANGED <<session, frames_data, video, interval_seconds, cap>>

DetectFrameUploadRetry(out) ==
    LET i == Len(results)
        frame_data == frames_data[i + 1]
    IN  /\ IF out = DetectRaises
           THEN /\ run' = [run EXCEPT !.detect_calls = @ + 1,
                                      !.failed = @ \cup {i},
                                      !.ui = @ \cup {"warning: frame"}]
                /\ results' = results
                /\ pc' = "detect"
           ELSE /\ run' = [run EXCEPT !.detect_calls = @ + 1]
                /\ results' = Append(results,
                                 FrameResult(i, frame_data, Detections(out),
                                             IF out # 0 THEN out ELSE 0))
                /\ pc' = IF i + 1 = Len(frames_data) THEN "detected" ELSE "detect"
        /\ UNCHANGED <<session, frames_data, video, interval_seconds, cap>>

\* analyze_video, lines 344-376: try/except around detect_objects
DetectFrameUpload(out) ==
    LET i == Len(results)
        frame_data == frames_data[i + 1]
    IN  /\ IF out = DetectRaises
           THEN /\ run' = [run EXCEPT !.detect_calls = @ + 1,
                                      !.failed = @ \cup {i},
                                      !.ui = @ \cup {"warning: frame"}]
                /\ results' = Append(results,
                                 FrameResult(i, frame_data, <<>>, 0))
           ELSE /\ run' = [run EXCEPT !.detect_calls = @ + 1]
                /\ results' = Append(results,
                                 FrameResult(i, frame_data, Detections(out),
                                             IF out # 0 THEN out ELSE 0))
        /\ pc' = IF i + 1 = Len(frames_data) THEN "detected" ELSE "detect"
        /\ UNCHANGED <<session, frames_data, video, interval_seconds, cap>>

\* one iteration of the detection loop
DetectFrame ==
    /\ pc = "detect"
    /\ \E out \in DetectOutcomes :
          IF run.entry = "sample" THEN DetectFrameSample(out)
                                  ELSE DetectFrameUpload(out)
    /\ UNCHANGED <<frame_interval, frame_number, video_analyses,
                   frame_detections, id_seq, runs>>
    /\ UNCHANGED aux

\* db_results of lines 467-477: the frame results without the 'frame' key
DbResults(res) ==
    [k \in DOMAIN res |->
        [frame_index |-> res[k].frame_index,
         timestamp |-> res[k].timestamp,
         medibox_count |-> res[k].medibox_count,
         detections |-> res[k].detections]]

FinishRunNoInnerTry ==
    /\ pc = "detected"
    /\ IF run.entry = "sample"
       THEN \E fault \in DbFaults :
               LET s == SaveAnalysisResults(video_analyses, frame_detections,
                           id_seq, interval_seconds, DbResults(results), fault,
                           clock)
               IN  /\ video_analyses' = s.video_analyses
                   /\ frame_detections' = s.frame_detections
                   /\ id_seq' = s.id_seq
                   /\ session' = [analysis_results |-> results,
                                  processing_complete |-> s.outcome = "returned",
                                  current_frame_index |-> 0]
                   /\ run' = [run EXCEPT
                                !.save_calls = @ + 1,
                                !.fault = fault,
                                !.save_outcome = s.outcome,
                                !.save_id = s.id,
                                !.ui = @ \cup
                                   (IF s.outcome = "returned"
                                    THEN {"success: saved", "success: complete"}
                                    ELSE {"error: analysis"})]
       ELSE /\ run' = [run EXCEPT !.ui = @ \cup {"success: complete"}]
            /\ session' = [analysis_results |-> results,
                           processing_complete |-> TRUE,
                           current_frame_index |-> 0]
            /\ UNCHANGED <<video_analyses, frame_detections, id_seq>>
    /\ pc' = "idle"
    /\ video' = NoVideo
    /\ interval_seconds' = 0
    /\ cap' = "none"
    /\ frames_data' = <<>>
    /\ results' = <<>>
    /\ UNCHANGED <<frame_interval, frame_number, runs>>
    /\ UNCHANGED aux

\* after the loop: session state, then (samples only) the save in its own try
FinishRun ==
    /\ pc = "detected"
    /\ session' = [analysis_results |-> results,
                   processing_complete |-> TRUE,
                   current_frame_index |-> 0]
    /\ IF run.entry = "sample"
       THEN \E fault \in DbFaults :
               LET s == SaveAnalysisResults(video_analyses, frame_detections,
                           id_seq, interval_seconds, DbResults(results), fault,
                           clock)
               IN  /\ video_analyses' = s.video_analyses
                   /\ frame_detections' = s.frame_detections
                   /\ id_seq' = s.id_seq
                   /\ run' = [run EXCEPT
                                !.save_calls = @ + 1,
                                !.fault = fault,
                                !.save_outcome = s.outcome,
                                !.save_id = s.id,
                                !.ui = @ \cup
                                   {IF s.outcome = "returned"
                                    THEN "success: saved"
                                    ELSE "warning: could not save"}
                                   \cup {"success: complete"}]
       ELSE /\ run' = [run EXCEPT !.ui = @ \cup {"success: complete"}]
            /\ UNCHANGED <<video_analyses, frame_detections, id_seq>>
    /\ pc' = "idle"
    /\ video' = NoVideo
    /\ interval_seconds' = 0
    /\ cap' = "none"
    /\ frames_data' = <<>>
    /\ results' = <<>>
    /\ UNCHANGED <<frame_interval, frame_number, runs>>
    /\ UNCHANGED aux

----------------------------------------------------------------------------
(* Direct calls of the result store *)

\* lists of per-frame counts handed to the store
CountLists ==
    UNION {[1..n -> 0..MaxCount] : n \in 0..MaxLen} \cup {<<2, 0, 3, 1>>}

\* the frame number is stored under 'frame_number' (what the child rows
\* read) or under 'frame_index' (what the pipeline writes)
FrameKeys == {"frame_number", "frame_index"}

StoreResults(key, counts) ==
    [k \in DOMAIN counts |->
        (key :> (k - 1)) @@
        [timestamp |-> [num |-> k - 1, den |-> 1],
         medibox_count |-> counts[k],
         detections |-> Detections(counts[k])]]

\* the frame-result lists drawn as inputs
DrawnResults ==
    {StoreResults(key, counts) : key \in FrameKeys, counts \in CountLists}

\* save_analysis_results(filename, size, frame_interval, results, time)
\* applied once to the drawn list
SaveCall ==
    /\ pc = "idle"
    /\ run.save_calls = 0
    /\ \E fault \in DbFaults :
          LET s == SaveAnalysisResults(video_analyses, frame_detections,
                                       id_seq, 1, results, fault, clock)
          IN  /\ video_analyses' = s.video_analyses
              /\ frame_detections' = s.frame_detections
              /\ id_seq' = s.id_seq
              /\ run' = [NoRun EXCEPT !.entry = "save",
                                      !.save_calls = 1,
                                      !.fault = fault,
                                      !.save_outcome = s.outcome,
                                      !.save_id = s.id]
    /\ UNCHANGED <<pc, video, interval_seconds, cap, frame_interval,
                   frame_number, frames_data, results, session, runs>>
    /\ UNCHANGED aux

----------------------------------------------------------------------------
(* Sequences of direct calls of the result store *)

\* the frame-result lists saved by the direct calls
OpsResults ==
    {StoreResults(key, counts) :
        key \in FrameKeys, counts \in {<<>>, <<1>>, <<0, 2>>}}

pipelineVars == <<pc, video, interval_seconds, cap, frame_interval,
                  frame_number, frames_data, results, session, run, appVars>>

\* save_analysis_results(...)
SaveOp ==
    /\ runs < MaxOps
    /\ \E res \in OpsResults, fault \in DbFaults :
          LET s == SaveAnalysisResults(video_analyses, frame_detections,
                                       id_seq, 1, res, fault, clock)
          IN  /\ video_analyses' = s.video_analyses
              /\ frame_detections' = s.frame_detections
              /\ id_seq' = s.id_seq
              /\ arg' = [op |-> "save", n |-> Len(res), fault |-> fault]
              /\ ret' = [op |-> "save", outcome |-> s.outcome, value |-> s.id]
    /\ runs' = runs + 1
    /\ UNCHANGED <<pipelineVars, clock>>

\* delete_analysis(analysis_id)
DeleteOp ==
    /\ runs < MaxOps
    /\ \E analysis_id \in 1..(id_seq + 1), fault \in DeleteFaults :
          LET d == DeleteAnalysis(video_analyses, frame_detections,
                                  analysis_id, fault)
          IN  /\ video_analyses' = d.video_analyses
              /\ frame_detections' = d.frame_detections
              /\ arg' = [op |-> "delete", id |-> analysis_id, fault |-> fault]
              /\ ret' = [op |-> "delete", outcome |-> d.outcome,
                         value |-> d.value]
    /\ runs' = runs + 1
    /\ UNCHANGED <<pipelineVars, id_seq, clock>>

\* get_analysis_history(limit)
HistoryOp ==
    /\ runs < MaxOps
    /\ \E limit \in 0..MaxLimit :
          \E h \in GetAnalysisHistory(video_analyses, limit) :
             /\ arg' = [op |-> "history", limit |-> limit]
             /\ ret' = [op |-> "history", outcome |-> "returned", value |-> h]
    /\ runs' = runs + 1
    /\ UNCHANGED <<pipelineVars, video_analyses, frame_detections, id_seq,
                   clock>>

\* time passes between two calls
Tick ==
    /\ clock < MaxClock
    /\ clock' = clock + 1
    /\ UNCHANGED <<pipelineVars, video_analyses, frame_detections, id_seq,
                   runs, arg, ret>>

----------------------------------------------------------------------------
(* A direct call of the remote detector *)

DetectCall ==
    /\ arg.op = "detect"
    /\ ret = NoCall
    /\ LET d == DetectObjects(arg.response)
       IN  ret' = [op |-> "detect", outcome |-> d.outcome, value |-> d.value]
    /\ UNCHANGED <<pipelineVars, video_analyses, frame_detections, id_seq,
                   runs, clock, arg>>

----------------------------------------------------------------------------
(* A direct call of the export *)

\* the count of a frame is stored under 'medibox_count' (what the pipeline
\* and the store write) or under 'playdough_count' (what the export reads)
CountKeys == {"medibox_count", "playdough_count"}

\* frame results as the history tab hands them to the export: frames 75/2
\* seconds apart
ExportResults(key, counts) ==
    [k \in DOMAIN counts |->
        (key :> counts[k]) @@
        [frame_index |-> k - 1,
         timestamp |-> [num |-> (k - 1) * 75, den |-> 2],
         detections |-> Detections(counts[k])]]

DrawnExports ==
    {ExportResults(key, counts) : key \in CountKeys, counts \in CountLists}

ExportCall ==
    /\ arg.op = "export"
    /\ ret = NoCall
    /\ LET e == ExportResultsToCsv(arg.results)
       IN  ret' = [op |-> "export", outcome |-> e.outcome,
                   header |-> e.header, rows |-> e.rows]
    /\ UNCHANGED <<pipelineVars, video_analyses, frame_detections, id_seq,
                   runs, clock, arg>>

----------------------------------------------------------------------------
(* Result store calls of concurrent callers, statement by statement *)

\* the frame results a caller saves
ConcurrentResults ==
    {StoreResults("frame_number", counts) : counts \in {<<1>>, <<0, 2>>}}

storeVars == <<pc, video, interval_seconds, cap, frame_interval,
               frame_number, frames_data, results, session, run, clock, arg,
               ret, users, auth>>

\* save_analysis_results, lines 81-95: the parent row is added and committed
SaveCommitParent(c) ==
    /\ db_sessions[c] = IdleSession
    /\ runs < MaxOps
    /\ \E res \in ConcurrentResults :
          /\ video_analyses' =
                Append(video_analyses, VideoAnalysisRow(id_seq + 1, 1, res, clock))
          /\ db_sessions' = [db_sessions EXCEPT ![c] =
                [op |-> "save", at |-> "refresh", id |-> id_seq + 1,
                 results |-> res]]
    /\ id_seq' = id_seq + 1
    /\ runs' = runs + 1
    /\ UNCHANGED <<frame_detections, storeVars>>

\* line 96: db.refresh(video_analysis) reads the row back and raises when it
\* is gone; the except branch rolls back and re-raises
SaveRefresh(c) ==
    /\ db_sessions[c].op = "save"
    /\ db_sessions[c].at = "refresh"
    /\ db_sessions' = [db_sessions EXCEPT ![c] =
          IF db_sessions[c].id \in Ids(video_analyses)
          THEN [@ EXCEPT !.at = "children"]
          ELSE IdleSession]
    /\ UNCHANGED <<video_analyses, frame_detections, id_seq, runs, storeVars>>

\* lines 99-111: the child rows are added and committed, the id returned
SaveCommitChildren(c) ==
    /\ db_sessions[c].op = "save"
    /\ db_sessions[c].at = "children"
    /\ LET id == db_sessions[c].id
           res == db_sessions[c].results
       IN  frame_detections' =
              frame_detections \o [k \in DOMAIN res |-> FrameDetectionRow(id, res[k])]
    /\ db_sessions' = [db_sessions EXCEPT ![c] = IdleSession]
    /\ UNCHANGED <<video_analyses, id_seq, runs, storeVars>>

\* delete_analysis, line 150: DELETE of the child rows committed so far,
\* pending in the caller's transaction
DeleteChildren(c) ==
    /\ db_sessions[c] = IdleSession
    /\ runs < MaxOps
    /\ \E analysis_id \in 1..id_seq :
          db_sessions' = [db_sessions EXCEPT ![c] =
             [op |-> "delete", at |-> "parent", id |-> analysis_id,
              children |-> \E k \in DOMAIN frame_detections :
                              frame_detections[k].video_analysis_id = analysis_id]]
    /\ runs' = runs + 1
    /\ UNCHANGED <<video_analyses, frame_detections, id_seq, storeVars>>

\* lines 153-158: the parent row is looked up; when found it is deleted and
\* the transaction committed, else the pending DELETE is rolled back by close
DeleteParent(c) ==
    /\ db_sessions[c].op = "delete"
    /\ db_sessions[c].at = "parent"
    /\ LET id == db_sessions[c].id
           KeepChild(r) == r.video_analysis_id # id
           KeepParent(r) == r.id # id
       IN  IF id \in Ids(video_analyses)
           THEN /\ video_analyses' = SelectSeq(video_analyses, KeepParent)
                /\ frame_detections' =
                      IF db_sessions[c].children
                      THEN SelectSeq(frame_detections, KeepChild)
                      ELSE frame_detections
           ELSE UNCHANGED <<video_analyses, frame_detections>>
    /\ db_sessions' = [db_sessions EXCEPT ![c] = IdleSession]
    /\ UNCHANGED <<id_seq, runs, storeVars>>

----------------------------------------------------------------------------
(* frame_inspector_tab: the navigation events *)

\* lines 610-612: the tab shows frames only after a completed analysis
InspectorShown ==
    /\ pc = "idle"
    /\ session.processing_complete
    /\ session.analysis_results # <<>>

inspectorFrame == <<pc, video, interval_seconds, cap, frame_interval,
                    frame_number, frames_data, results, video_analyses,
                    frame_detections, id_seq, run, runs, aux>>

\* lines 620-622: the Previous button, disabled at the first frame
PreviousFrame ==
    /\ InspectorShown
    /\ ~(session.current_frame_index <= 0)
    /\ session' = [session EXCEPT !.current_frame_index = Max2(0, @ - 1)]
    /\ UNCHANGED inspectorFrame

\* lines 625-633: the slider over 0 .. len(results) - 1
MoveSlider ==
    /\ InspectorShown
    /\ \E frame_index \in 0..(Len(session.analysis_results) - 1) :
          /\ frame_index # session.current_frame_index
          /\ session' = [session EXCEPT !.current_frame_index = frame_index]
    /\ UNCHANGED inspectorFrame

NextFrameUnbounded ==
    /\ InspectorShown
    /\ session.current_frame_index < MaxFrames
    /\ session' = [session EXCEPT !.current_frame_index = @ + 1]
    /\ UNCHANGED inspectorFrame

\* lines 636-638: the Next button, disabled at the last frame
NextFrame ==
    /\ InspectorShown
    /\ ~(session.current_frame_index >= Len(session.analysis_results) - 1)
    /\ session' = [session EXCEPT !.current_frame_index =
                      Min2(Len(session.analysis_results) - 1, @ + 1)]
    /\ UNCHANGED inspectorFrame

----------------------------------------------------------------------------
(* Direct calls of the auth operations *)

\* user names and e-mail addresses are both plain strings
LoginNames == {"admin", "admin@medibox.com", "bob", "bob@x.org"}

Emails == {"admin@medibox.com", "bob@x.org"}

Passwords == {"admin123", "secret1"}

authFrame == <<pc, video, interval_seconds, cap, frame_interval,
               frame_number, frames_data, results, session, video_analyses,
               frame_detections, id_seq, run, clock, db_sessions, auth>>

\* create_user(username, email, full_name, password, role)
CreateUserOp ==
    /\ runs < MaxAuthOps
    /\ \E username \in LoginNames, email \in Emails :
          LET c == CreateUser(users, username, email, "secret1", "viewer")
          IN  /\ users' = c.users
              /\ arg' = [op |-> "create_user", username |-> username,
                         email |-> email]
              /\ ret' = [op |-> "create_user", value |-> c.value]
    /\ runs' = runs + 1
    /\ UNCHANGED authFrame

\* authenticate_user(username_or_email, password)
AuthenticateOp ==
    /\ runs < MaxAuthOps
    /\ \E name \in LoginNames, password \in Passwords :
          \E a \in AuthenticateUser(users, name, password, clock) :
             /\ users' = a.users
             /\ arg' = [op |-> "authenticate_user", name |-> name,
                        password |-> password]
             /\ ret' = [op |-> "authenticate_user", info |-> a.value]
    /\ runs' = runs + 1
    /\ UNCHANGED authFrame

\* update_user_role(username, new_role)
UpdateRoleOp ==
    /\ runs < MaxAuthOps
    /\ \E username \in {"admin", "bob"}, new_role \in {"viewer", "admin"} :
          LET u == UpdateUserRole(users, username, new_role)
          IN  /\ users' = u.users
              /\ arg' = [op |-> "update_user_role", username |-> username,
                         role |-> new_role]
              /\ ret' = [op |-> "update_user_role", value |-> u.value]
    /\ runs' = runs + 1
    /\ UNCHANGED authFrame

\* deactivate_user(username)
DeactivateOp ==
    /\ runs < MaxAuthOps
    /\ \E username \in {"admin", "bob"} :
          LET d == DeactivateUser(users, username)
          IN  /\ users' = d.users
              /\ arg' = [op |-> "deactivate_user", username |-> username]
              /\ ret' = [op |-> "deactivate_user", value |-> d.value]
    /\ runs' = runs + 1
    /\ UNCHANGED authFrame

\* create_default_admin()
CreateDefaultAdminOp ==
    /\ runs < MaxAuthOps
    /\ LET d == CreateDefaultAdmin(users)
       IN  /\ users' = d.users
           /\ arg' = [op |-> "create_default_admin"]
           /\ ret' = [op |-> "create_default_admin", value |-> d.value]
    /\ runs' = runs + 1
    /\ UNCHANGED authFrame

----------------------------------------------------------------------------
(* A request to the /upload endpoint *)

Filenames ==
    {<<"c", "v", ".", "j", "s", "o", "n">>,
     <<"c", "v", ".", "J", "S", "O", "N">>,
     <<"c", "v", ".", "t", "x", "t">>,
     <<"j", "s", "o", "n">>}

UploadBodies ==
    {NotUtf8, NotJson, JsonList,
     JsonDict([skills |-> "python"]),
     JsonDict([candidateName |-> ""]),
     JsonDict([candidateName |-> "", skills |-> "python"]),
     JsonDict([candidateName |-> "Ann"]),
     JsonDict([candidateName |-> "Bo"]),
     JsonDict([candidateName |-> "Ann", skills |-> "python"])}

UploadRequests ==
    [filename : Filenames, body : UploadBodies, processing_ok : BOOLEAN]

UploadCall ==
    /\ arg.op = "upload"
    /\ ret = NoCall
    /\ LET r == UploadFileResponse(arg.request)
       IN  ret' = [op |-> "upload", status_code |-> r.status_code,
                   detail |-> r.detail]
    /\ UNCHANGED <<pipelineVars, video_analyses, frame_detections, id_seq,
                   runs, clock, arg>>

----------------------------------------------------------------------------
(* The dashboard: main(), the forms and the role-based tabs *)

MainTabsSameForAll(a) ==
    IF ~a.authenticated THEN {}
    ELSE {"analysis", "visualization", "inspector", "history", "users"}

\* app.py lines 57-62 and 121-168: the tabs main() runs for a session
MainTabs(a) ==
    IF ~a.authenticated THEN {}
    ELSE LET user_role == Get(a.user_info, "role", "viewer")
         IN  IF user_role = "admin"
             THEN {"analysis", "visualization", "inspector", "history", "users"}
             ELSE IF user_role = "analyst"
             THEN {"analysis", "visualization", "inspector", "history"}
             ELSE {"visualization", "inspector", "history"}

\* role_hierarchy.get(role, 0)
RoleLevel(role) ==
    IF role = "admin" THEN 3 ELSE IF role = "analyst" THEN 2
    ELSE IF role = "viewer" THEN 1 ELSE 0

\* auth.py lines 233-246
CheckPermission(a, required_role) ==
    RoleLevel(Get(a.user_info, "role", "viewer")) >= RoleLevel(required_role)

\* app.py lines 40-45: every rerun of the script calls create_default_admin
\* before main()
Started == CreateDefaultAdmin(users).users

dashboardFrame == <<pc, video, interval_seconds, cap, frame_interval,
                    frame_number, frames_data, results, session, id_seq, run,
                    clock, db_sessions>>

\* login_form: the Login button
LoginEvent ==
    /\ ~auth.authenticated
    /\ \E name \in {"admin", "bob"}, password \in Passwords :
          \E a \in AuthenticateUser(Started, name, password, clock) :
             /\ users' = a.users
             /\ auth' = IF a.value # NoneInfo
                        THEN [authenticated |-> TRUE, user_info |-> a.value]
                        ELSE auth
             /\ arg' = [op |-> "login", name |-> name]
             /\ ret' = [op |-> "login", value |-> a.value # NoneInfo]
    /\ UNCHANGED <<video_analyses, frame_detections>>

\* auth_sidebar: the Logout button
LogoutEvent ==
    /\ auth.authenticated
    /\ auth' = NoAuth
    /\ users' = Started
    /\ arg' = [op |-> "logout"]
    /\ ret' = [op |-> "logout", value |-> TRUE]
    /\ UNCHANGED <<video_analyses, frame_detections>>

\* register_form: the Register button with valid fields
RegisterEvent ==
    /\ ~auth.authenticated
    /\ LET c == CreateUser(Started, "bob", "bob@x.org", "secret1", "viewer")
       IN  /\ users' = c.users
           /\ ret' = [op |-> "register", value |-> c.value]
    /\ arg' = [op |-> "register", name |-> "bob"]
    /\ UNCHANGED <<auth, video_analyses, frame_detections>>

\* user_management_tab: Update Role and Deactivate of a listed user
RoleChangeEvent ==
    /\ "users" \in MainTabs(auth)
    /\ CheckPermission(auth, "admin")
    /\ \E k \in DOMAIN Started :
          \/ \E new_role \in Roles :
                LET u == UpdateUserRole(Started, Started[k].username, new_role)
                IN  /\ users' = u.users
                    /\ arg' = [op |-> "update_user_role",
                               name |-> Started[k].username]
                    /\ ret' = [op |-> "update_user_role", value |-> u.value]
          \/ /\ Started[k].is_active
             /\ LET d == DeactivateUser(Started, Started[k].username)
                IN  /\ users' = d.users
                    /\ arg' = [op |-> "deactivate_user",
                               name |-> Started[k].username]
                    /\ ret' = [op |-> "deactivate_user", value |-> d.value]
    /\ UNCHANGED <<auth, video_analyses, frame_detections>>

\* one of the tabs of main() runs; video_analysis_tab is the only place an
\* analysis is started from (app.py lines 280, 284)
TabEvent ==
    /\ \E tab \in MainTabs(auth) :
          /\ arg' = [op |-> "tab", name |-> tab]
          /\ ret' = [op |-> "tab", value |-> TRUE]
    /\ users' = Started
    /\ UNCHANGED <<auth, video_analyses, frame_detections>>

\* analysis_history_tab, lines 815-822: the Delete Analysis button
DeleteEvent ==
    /\ "history" \in MainTabs(auth)
    /\ CheckPermission(auth, "admin")
    /\ \E selected_id \in Ids(video_analyses), fault \in DeleteFaults :
          LET d == DeleteAnalysis(video_analyses, frame_detections,
                                  selected_id, fault)
          IN  /\ video_analyses' = d.video_analyses
              /\ frame_detections' = d.frame_detections
              /\ arg' = [op |-> "delete_analysis", name |-> "history"]
              /\ ret' = [op |-> "delete_analysis", value |-> d.value]
    /\ users' = Started
    /\ UNCHANGED auth

----------------------------------------------------------------------------
(* Specifications *)

Init ==
    /\ pc = "idle"
    /\ video = NoVideo
    /\ interval_seconds = 0
    /\ cap = "none"
    /\ frame_interval = 0
    /\ frame_number = 0
    /\ frames_data = <<>>
    /\ results = <<>>
    /\ session = NoSession
    /\ video_analyses = <<>>
    /\ frame_detections = <<>>
    /\ id_seq = 0
    /\ run = NoRun
    /\ runs = 0
    /\ clock = 0
    /\ db_sessions = NoSessions
    /\ users = <<>>
    /\ auth = NoAuth
    /\ arg = NoCall
    /\ ret = NoCall

\* the pipeline: runs of either entry point, one after the other
Next ==
    \/ AnalyzeStart(Entries, PipelineVideos, PipelineIntervals)
    \/ ExtractIter
    \/ CheckFrames
    \/ DetectFrame
    \/ FinishRun

Spec == Init /\ [][Next]_vars

\* the sampler alone, over the full range of sources
NextSampler ==
    \/ AnalyzeStart({"sample"}, SamplerVideos, SamplerIntervals)
    \/ ExtractIter

SpecSampler == Init /\ [][NextSampler]_vars

\* save_analysis_results applied to a drawn list of frame results
InitStore ==
    /\ pc = "idle"
    /\ video = NoVideo
    /\ interval_seconds = 0
    /\ cap = "none"
    /\ frame_interval = 0
    /\ frame_number = 0
    /\ frames_data = <<>>
    /\ results \in DrawnResults
    /\ session = NoSession
    /\ video_analyses = <<>>
    /\ frame_detections = <<>>
    /\ id_seq = 0
    /\ run = NoRun
    /\ runs = 0
    /\ clock = 0
    /\ db_sessions = NoSessions
    /\ users = <<>>
    /\ auth = NoAuth
    /\ arg = NoCall
    /\ ret = NoCall

NextStore ==
    \/ SaveCall

SpecStore == InitStore /\ [][NextStore]_vars

\* save, delete and history calls in any order
NextStoreOps ==
    \/ SaveOp
    \/ DeleteOp
    \/ HistoryOp
    \/ Tick

SpecStoreOps == Init /\ [][NextStoreOps]_vars

\* the remote detector applied to one response
InitDetect ==
    /\ pc = "idle"
    /\ video = NoVideo
    /\ interval_seconds = 0
    /\ cap = "none"
    /\ frame_interval = 0
    /\ frame_number = 0
    /\ frames_data = <<>>
    /\ results = <<>>
    /\ session = NoSession
    /\ video_analyses = <<>>
    /\ frame_detections = <<>>
    /\ id_seq = 0
    /\ run = NoRun
    /\ runs = 0
    /\ clock = 0
    /\ db_sessions = NoSessions
    /\ users = <<>>
    /\ auth = NoAuth
    /\ arg \in {[op |-> "detect", response |-> r] : r \in Responses}
    /\ ret = NoCall

NextDetect == DetectCall

SpecDetect == InitDetect /\ [][NextDetect]_vars

\* the dashboard with one run in the history, as analyze_sample_video
\* leaves it
InitDashboard ==
    /\ pc = "idle"
    /\ video = NoVideo
    /\ interval_seconds = 0
    /\ cap = "none"
    /\ frame_interval = 0
    /\ frame_number = 0
    /\ frames_data = <<>>
    /\ results = <<>>
    /\ session = NoSession
    /\ LET s == SaveAnalysisResults(<<>>, <<>>, 0, 1,
                    StoreResults("frame_index", <<1>>), "none", 0)
       IN  /\ video_analyses = s.video_analyses
           /\ frame_detections = s.frame_detections
           /\ id_seq = s.id_seq
    /\ run = NoRun
    /\ runs = 0
    /\ clock = 0
    /\ db_sessions = NoSessions
    /\ users = <<>>
    /\ auth = NoAuth
    /\ arg = NoCall
    /\ ret = NoCall

\* the events of the dashboard, one script run each
NextDashboard ==
    /\ runs < MaxEvents
    /\ runs' = runs + 1
    /\ \/ LoginEvent
       \/ LogoutEvent
       \/ RegisterEvent
       \/ RoleChangeEvent
       \/ TabEvent
       \/ DeleteEvent
    /\ UNCHANGED dashboardFrame

SpecDashboard == InitDashboard /\ [][NextDashboard]_vars

\* the /upload endpoint applied to one request
InitUpload ==
    /\ pc = "idle"
    /\ video = NoVideo
    /\ interval_seconds = 0
    /\ cap = "none"
    /\ frame_interval = 0
    /\ frame_number = 0
    /\ frames_data = <<>>
    /\ results = <<>>
    /\ session = NoSession
    /\ video_analyses = <<>>
    /\ frame_detections = <<>>
    /\ id_seq = 0
    /\ run = NoRun
    /\ runs = 0
    /\ clock = 0
    /\ db_sessions = NoSessions
    /\ users = <<>>
    /\ auth = NoAuth
    /\ arg \in {[op |-> "upload", request |-> r] : r \in UploadRequests}
    /\ ret = NoCall

NextUpload == UploadCall

SpecUpload == InitUpload /\ [][NextUpload]_vars

\* the auth operations called in any order on an initially empty table
NextAuthOps ==
    \/ CreateUserOp
    \/ AuthenticateOp
    \/ UpdateRoleOp
    \/ DeactivateOp
    \/ CreateDefaultAdminOp

SpecAuthOps == Init /\ [][NextAuthOps]_vars

\* analyses and navigation in the frame inspector, in any order
NextInspector ==
    \/ AnalyzeStart(Entries, InspectorVideos, {1})
    \/ ExtractIter
    \/ CheckFrames
    \/ DetectFrame
    \/ FinishRun
    \/ PreviousFrame
    \/ MoveSlider
    \/ NextFrame

SpecInspector == Init /\ [][NextInspector]_vars

\* the result store under concurrent callers: any interleaving of the
\* statements of their calls
NextConcurrent ==
    \E c \in Callers :
       \/ SaveCommitParent(c)
       \/ SaveRefresh(c)
       \/ SaveCommitChildren(c)
       \/ DeleteChildren(c)
       \/ DeleteParent(c)

SpecConcurrent == Init /\ [][NextConcurrent]_vars

\* the export applied to one list of frame results
InitExport ==
    /\ pc = "idle"
    /\ video = NoVideo
    /\ interval_seconds = 0
    /\ cap = "none"
    /\ frame_interval = 0
    /\ frame_number = 0
    /\ frames_data = <<>>
    /\ results = <<>>
    /\ session = NoSession
    /\ video_analyses = <<>>
    /\ frame_detections = <<>>
    /\ id_seq = 0
    /\ run = NoRun
    /\ runs = 0
    /\ clock = 0
    /\ db_sessions = NoSessions
    /\ users = <<>>
    /\ auth = NoAuth
    /\ arg \in {[op |-> "export", results |-> r] : r \in DrawnExports}
    /\ ret = NoCall

NextExport == ExportCall

SpecExport == InitExport /\ [][NextExport]_vars

----------------------------------------------------------------------------
(* Properties of the sampler (SpecSampler) *)

FrameIndices(fd) == [k \in DOMAIN fd |-> fd[k].frame_index]

\* the value n / d of a timestamp equals the value a / b
SameRatio(ts, a, b) == ts.num * b = a * ts.den

ValidSampling ==
    video.opened /\ video.fps > 0 /\ interval_seconds > 0

\* C3: for an openable video with at least one frame, fps > 0 and
\* interval_seconds > 0, the step used by the sampling loop is never less
\* than 1 (so the loop cannot stay on one frame index).
C3_StepAtLeastOne ==
    (pc = "extract" /\ ValidSampling /\ video.total_frames >= 1)
        => frame_interval >= 1

\* C4: for valid (fps, interval_seconds) the frame indices collected by
\* extract_frames start at 0 and are strictly increasing.
C4_IndicesStrictlyIncreasing ==
    (ValidSampling /\ frames_data # <<>>)
        => /\ frames_data[1].frame_index = 0
           /\ \A k \in 1..(Len(frames_data) - 1) :
                 frames_data[k].frame_index < frames_data[k + 1].frame_index

\* step = max(1, round(fps * interval_seconds)), as the claim states it
ClaimedStep == Max2(1, PyRound(video.fps * interval_seconds, FpsDen))

\* the indices k * step below total
MultiplesBelow(step, total) ==
    [k \in 1..((total + step - 1) \div step) |-> (k - 1) * step]

\* C5: with fps > 0 and every frame below total_frames readable,
\* extract_frames returns exactly the frames at k * step < total_frames for
\* step = max(1, round(fps * interval_seconds)), each with timestamp
\* index / fps.
C5_ExactIndices ==
    (pc = "extracted" /\ ValidSampling /\ video.total_frames >= 1
                      /\ video.readable >= video.total_frames)
        => /\ FrameIndices(frames_data)
                 = MultiplesBelow(ClaimedStep, video.total_frames)
           /\ \A k \in DOMAIN frames_data :
                 SameRatio(frames_data[k].timestamp,
                           frames_data[k].frame_index * FpsDen, video.fps)

ScenarioAReturned ==
    pc = "extracted" /\ video = ScenarioA /\ interval_seconds = 5

\* C6 as stated: 900 frames at 30 fps every 5 seconds give exactly the
\* indices 0, 150, 300, 450, 600 at 0, 5, 10, 15, 20 seconds.
C6_ScenarioA_FiveFrames ==
    ScenarioAReturned
        => /\ FrameIndices(frames_data) = <<0, 150, 300, 450, 600>>
           /\ \A k \in DOMAIN frames_data :
                 SameRatio(frames_data[k].timestamp, 5 * (k - 1), 1)

\* C6 amended: 900 frames at 30 fps every 5 seconds give exactly the
\* indices 0, 150, 300, 450, 600, 750 at 0, 5, 10, 15, 20, 25 seconds.
C6_ScenarioA_SixFrames ==
    ScenarioAReturned
        => /\ FrameIndices(frames_data) = <<0, 150, 300, 450, 600, 750>>
           /\ \A k \in DOMAIN frames_data :
                 SameRatio(frames_data[k].timestamp, 5 * (k - 1), 1)

C6_Witness ==
    ScenarioAReturned /\ cap = "released" /\ frames_data # <<>>

----------------------------------------------------------------------------
(* Properties of the pipeline (Spec) *)

Counts(res) == [k \in DOMAIN res |-> res[k]["medibox_count"]]

RECURSIVE SumOver(_, _)
\* the sum of f over the index set S
SumOver(f, S) ==
    IF S = {} THEN 0
    ELSE LET k == CHOOSE x \in S : TRUE
         IN  f[k] + SumOver(f, S \ {k})

SummaryOf(row, counts) ==
    /\ row.total_frames = Len(counts)
    /\ row.total_detections = SumOver(counts, DOMAIN counts)
    /\ row.avg_per_frame.den > 0
    /\ IF counts = <<>>
       THEN /\ row.avg_per_frame.num = 0
            /\ row.max_in_frame = 0
            /\ row.min_in_frame = 0
       ELSE /\ row.avg_per_frame.num * row.total_frames
                  = row.total_detections * row.avg_per_frame.den
            /\ \A k \in DOMAIN counts : counts[k] <= row.max_in_frame
            /\ \E k \in DOMAIN counts : counts[k] = row.max_in_frame
            /\ \A k \in DOMAIN counts : counts[k] >= row.min_in_frame
            /\ \E k \in DOMAIN counts : counts[k] = row.min_in_frame
    /\ counts = <<2, 0, 3, 1>>
          => /\ row.total_detections = 6
             /\ 2 * row.avg_per_frame.num = 3 * row.avg_per_frame.den
             /\ row.max_in_frame = 3
             /\ row.min_in_frame = 0

RowsOf(id, fd) == {k \in DOMAIN fd : fd[k].video_analysis_id = id}

\* C1: every call of save_analysis_results either persists the parent row
\* and one child row per frame result and returns the id, or raises and
\* leaves both tables as they were before the call.
C1_SaveAtomic ==
    [][run'.save_calls = run.save_calls + 1
        => \/ /\ run'.save_outcome = "returned"
              /\ Len(video_analyses') = Len(video_analyses) + 1
              /\ video_analyses'[Len(video_analyses')].id = run'.save_id
              /\ Cardinality(RowsOf(run'.save_id, frame_detections'))
                    = Len(session'.analysis_results)
           \/ /\ run'.save_outcome = "raised"
              /\ video_analyses' = video_analyses
              /\ frame_detections' = frame_detections]_vars

\* C2: in a run of either entry point a failed detect_objects call does not
\* abort the run: the frame gets a result with count 0 and no detections,
\* and the run completes with a result for every sampled frame.
C2_DetectFailureDoesNotAbort ==
    LET rs == IF pc = "idle" THEN session.analysis_results ELSE results
    IN  run.failed # {}
           => /\ "error: analysis" \notin run.ui
              /\ \A i \in run.failed :
                    /\ i < Len(rs)
                    /\ rs[i + 1].medibox_count = 0
                    /\ rs[i + 1].detections = <<>>
              /\ pc = "idle" => /\ "success: complete" \in run.ui
                                /\ Len(rs) = run.detect_calls

\* the source could not be opened, or gave no frame
SourceUnavailable ==
    ~video.opened \/ video.readable = 0 \/ frames_data = <<>>

\* C7: when the video cannot be opened or yields no frames, sampling returns
\* no frames, the caller reports an error and ends the run, no detector call
\* was made and nothing is written to the store.
C7_SourceUnavailableIsFatal ==
    [][(pc = "extracted" /\ SourceUnavailable)
        => /\ frames_data = <<>>
           /\ pc' = "idle"
           /\ "error: extract frames" \in run'.ui
           /\ "success: complete" \notin run'.ui
           /\ run'.detect_calls = 0
           /\ run'.save_calls = 0
           /\ video_analyses' = video_analyses
           /\ frame_detections' = frame_detections
           /\ session' = session]_vars

C7_Witness ==
    /\ pc = "idle"
    /\ "error: extract frames" \in run.ui
    /\ run.detect_calls = 0
    /\ video_analyses # <<>>

----------------------------------------------------------------------------
(* Properties of the result store (SpecStore) *)

\* C8: every stored summary has total_frames = number of frame results,
\* total_detections = sum of the counts, max/min = largest/smallest count,
\* avg = total_detections / total_frames; an empty list gives all zeros and
\* the call raises no error; counts [2,0,3,1] give 6, 1.5, 3, 0.
C8_SummaryFields ==
    /\ \A k \in DOMAIN video_analyses :
          SummaryOf(video_analyses[k], Counts(video_analyses[k].analysis_results))
    /\ (run.entry = "save" /\ results = <<>> /\ run.fault = "none")
          => /\ run.save_outcome = "returned"
             /\ video_analyses # <<>>

C8_Witness ==
    /\ run.save_outcome = "returned"
    /\ \E k \in DOMAIN video_analyses :
          Counts(video_analyses[k].analysis_results) = <<2, 0, 3, 1>>

\* C9: for every non-empty list of frame results the summary satisfies
\* min_in_frame <= avg_per_frame <= max_in_frame.
C9_AvgBetweenMinAndMax ==
    \A k \in DOMAIN video_analyses :
       LET row == video_analyses[k]
       IN  row.total_frames > 0
              => /\ row.min_in_frame * row.avg_per_frame.den
                       <= row.avg_per_frame.num
                 /\ row.avg_per_frame.num
                       <= row.max_in_frame * row.avg_per_frame.den
                 /\ row.min_in_frame * row.total_frames <= row.total_detections
                 /\ row.total_detections <= row.max_in_frame * row.total_frames

C9_Witness ==
    \E k \in DOMAIN video_analyses :
       /\ video_analyses[k].total_frames > 1
       /\ video_analyses[k].min_in_frame < video_analyses[k].max_in_frame

----------------------------------------------------------------------------
(* Properties of delete_analysis and get_analysis_history (SpecStoreOps) *)

DeleteStep == runs' = runs + 1 /\ arg'.op = "delete"

\* C11: delete_analysis of an id that is not in the store returns False
\* without raising and leaves the store unchanged; it returns True exactly
\* when the id was in the store, the id is gone afterwards, and a second
\* delete of the same id right after a successful one returns False.
C11_DeleteIdempotent ==
    [][(DeleteStep /\ arg'.fault = "none")
        => /\ ret'.outcome = "returned"
           /\ ret'.value = (arg'.id \in Ids(video_analyses))
           /\ arg'.id \notin Ids(video_analyses')
           /\ arg'.id \notin Ids(video_analyses)
                 => /\ video_analyses' = video_analyses
                    /\ frame_detections' = frame_detections
           /\ (arg.op = "delete" /\ arg.id = arg'.id
                 /\ ret.outcome = "returned" /\ ret.value)
                 => ret'.value = FALSE]_vars

C11_Witness ==
    /\ arg.op = "delete"
    /\ ret.outcome = "returned"
    /\ ret.value = FALSE
    /\ arg.id <= id_seq
    /\ arg.id \notin Ids(video_analyses)

\* every row of old that satisfies Keep is still in new, and nothing else
Remaining(old, new, Keep(_)) ==
    /\ \A k \in DOMAIN new : Keep(new[k]) /\ \E j \in DOMAIN old : old[j] = new[k]
    /\ \A j \in DOMAIN old : Keep(old[j]) => \E k \in DOMAIN new : new[k] = old[j]
    /\ Len(new) = Cardinality({j \in DOMAIN old : Keep(old[j])})

\* C12: delete_analysis of an existing run removes all its FrameDetection
\* rows and its VideoAnalysis row together and nothing else; when a step
\* fails the call raises and no row of either table has been removed.
C12_DeleteAtomic ==
    [][DeleteStep
        => LET id == arg'.id
               OtherParent(r) == r.id # id
               OtherChild(r) == r.video_analysis_id # id
           IN  \/ /\ ret'.outcome = "returned"
                  /\ ret'.value
                  /\ id \in Ids(video_analyses)
                  /\ Remaining(video_analyses, video_analyses', OtherParent)
                  /\ Remaining(frame_detections, frame_detections', OtherChild)
               \/ /\ ret'.outcome = "returned"
                  /\ ~ret'.value
                  /\ id \notin Ids(video_analyses)
                  /\ video_analyses' = video_analyses
                  /\ frame_detections' = frame_detections
               \/ /\ ret'.outcome = "raised"
                  /\ arg'.fault # "none"
                  /\ video_analyses' = video_analyses
                  /\ frame_detections' = frame_detections]_vars

C12_Witness ==
    /\ arg.op = "delete"
    /\ arg.fault = "commit"
    /\ ret.outcome = "raised"
    /\ arg.id \in Ids(video_analyses)
    /\ \E k \in DOMAIN frame_detections :
          frame_detections[k].video_analysis_id = arg.id

\* C13: get_analysis_history(limit) returns at most limit runs, all of them
\* in the store and no run twice, from the most recently created to the
\* least recently created, and no run left out is more recent than a run
\* returned.
C13_HistoryMostRecentFirst ==
    ret.op = "history"
        => LET h == ret.value
           IN  /\ Len(h) <= arg.limit
               /\ Len(h) = Min2(arg.limit, Len(video_analyses))
               /\ \A k \in DOMAIN h :
                     \E j \in DOMAIN video_analyses : video_analyses[j] = h[k]
               /\ \A i, j \in DOMAIN h : i # j => h[i].id # h[j].id
               /\ \A i, j \in DOMAIN h :
                     i < j => h[i].created_at >= h[j].created_at
               /\ \A j \in DOMAIN video_analyses :
                     (\A k \in DOMAIN h : h[k].id # video_analyses[j].id)
                        => \A k \in DOMAIN h :
                              video_analyses[j].created_at <= h[k].created_at

C13_Witness ==
    /\ ret.op = "history"
    /\ Len(ret.value) = 1
    /\ Len(video_analyses) = 2
    /\ video_analyses[1].created_at < video_analyses[2].created_at
    /\ ret.value[1] = video_analyses[2]

----------------------------------------------------------------------------
(* Properties of the run as a state machine (Spec) *)

\* the states of a run in the order of the pipeline
Sampling == {"extract", "extracted"}
Detecting == {"detect"}
Aggregating == {"detected"}

Rank(p) ==
    IF p \in Sampling THEN 1 ELSE IF p \in Detecting THEN 2
    ELSE IF p \in Aggregating THEN 3 ELSE 0

RunFatal(r) == r.ui \cap {"error: extract frames", "error: analysis"} # {}
Persisted(r) == r.save_outcome = "returned"

\* C14: a run of either entry point goes through Sampling, Detecting and
\* Aggregating in that order, never back to an earlier state, and when it
\* ends it is Persisted if all frames were processed without a run-fatal
\* error and Failed (and not Persisted) otherwise.
C14_RunStateMachine ==
    [][/\ (pc = "idle" /\ pc' # "idle") => pc' \in Sampling
       /\ (pc # "idle" /\ pc' # "idle")
             => /\ Rank(pc) <= Rank(pc')
                /\ Rank(pc') <= Rank(pc) + 1
       /\ (pc # "idle" /\ pc' = "idle")
             => /\ run'.entry \in Entries
                /\ Persisted(run') # RunFatal(run')
                /\ Persisted(run') <=> (pc \in Aggregating /\ ~RunFatal(run'))]_vars

----------------------------------------------------------------------------
(* Properties of the save at the end of a run (Spec) *)

StoreWritten ==
    \/ run'.save_calls > run.save_calls
    \/ video_analyses' # video_analyses
    \/ frame_detections' # frame_detections

\* C15: save_analysis_results is called, and the store written, only when a
\* result has been recorded for every sampled frame; a run that ends before
\* that point has called no save and has left the store as it was.
C15_SaveOnlyAfterAllFrames ==
    [][/\ StoreWritten
             => /\ pc \in Aggregating
                /\ frames_data # <<>>
                /\ Len(results) = Len(frames_data)
                /\ \A k \in DOMAIN results : results[k].frame_index = k - 1
       /\ (pc \in Sampling \cup Detecting /\ pc' = "idle")
             => /\ run'.save_calls = 0
                /\ ~StoreWritten]_vars

C15_Witness ==
    /\ pc = "idle"
    /\ run.entry = "sample"
    /\ run.save_calls = 1
    /\ run.detect_calls = 2
    /\ Len(session.analysis_results) = 2

\* C16: when the save at the end of a run raises, the user is warned and
\* the session keeps the run: analysis_results holds the result of every
\* sampled frame, processing_complete is True and current_frame_index is 0.
C16_SaveFailureKeepsSession ==
    [][(run'.save_calls > run.save_calls /\ run'.save_outcome = "raised")
        => /\ "warning: could not save" \in run'.ui
           /\ ~RunFatal(run')
           /\ session'.analysis_results = results
           /\ Len(results) = Len(frames_data)
           /\ session'.processing_complete = TRUE
           /\ session'.current_frame_index = 0]_vars

C16_Witness ==
    /\ pc = "idle"
    /\ run.save_outcome = "raised"
    /\ "warning: could not save" \in run.ui
    /\ session.processing_complete
    /\ Len(session.analysis_results) = 2
    /\ session.analysis_results[2].medibox_count = 1

----------------------------------------------------------------------------
(* Properties of the capture handle and of the interval (SpecSampler) *)

\* C17: a call of extract_frames with a non-positive interval is rejected
\* before the video is opened or a frame is read: no capture exists and no
\* frame has been collected.
C17_NonPositiveIntervalRejected ==
    (pc # "idle" /\ interval_seconds <= 0)
        => /\ cap = "none"
           /\ frames_data = <<>>

\* C20: when extract_frames has returned, the capture it created has been
\* released, whether the loop completed, the source failed to open or an
\* exception was raised while reading.
C20_CaptureReleased ==
    pc = "extracted" => cap = "released"

----------------------------------------------------------------------------
(* Properties of the remote detector (SpecDetect) *)

\* a response is well formed when its status is 200 and its body is a JSON
\* mapping whose 'backbonepredictions' maps detection ids to mappings with
\* label, score and coordinates
WellFormed(response) ==
    /\ response.status_code = 200
    /\ IsDict(response.body)
    /\ "backbonepredictions" \in DOMAIN response.body.fields
    /\ LET preds == response.body.fields.backbonepredictions
       IN  /\ IsDict(preds)
           /\ \A k \in DOMAIN preds.items :
                 /\ IsDict(preds.items[k])
                 /\ {"labelName", "score", "coordinates"}
                       \subseteq DOMAIN preds.items[k].fields
                 /\ {"xmin", "ymin", "xmax", "ymax"}
                       \subseteq DOMAIN preds.items[k].fields.coordinates

\* C18: the remote detect_objects returns a list exactly for a well-formed
\* 200 response; for any other status or a malformed payload it raises.
C18_MalformedResponseRaises ==
    ret.op = "detect"
        => (ret.outcome = "returned" <=> WellFormed(arg.response))

----------------------------------------------------------------------------
(* Properties of the export (SpecExport) *)

\* a frame result as the pipeline builds it and the store returns it
SavedRunRecord(r) ==
    {"frame_index", "timestamp", "medibox_count", "detections"} = DOMAIN r

\* C19: export_results_to_csv on the frame results of a saved run does not
\* raise and gives the header and one data row per frame result, in order,
\* with that result's frame index, raw timestamp, formatted timestamp, count
\* and detection details.
C19_ExportOneRowPerFrame ==
    (ret.op = "export" /\ \A k \in DOMAIN arg.results : SavedRunRecord(arg.results[k]))
        => /\ ret.outcome = "returned"
           /\ ret.header = CsvHeader
           /\ Len(ret.rows) = Len(arg.results)
           /\ \A k \in DOMAIN arg.results :
                 /\ ret.rows[k].frame_index = arg.results[k].frame_index
                 /\ ret.rows[k].timestamp = arg.results[k].timestamp
                 /\ ret.rows[k].formatted = FormatTimestamp(arg.results[k].timestamp)
                 /\ ret.rows[k].count = arg.results[k].medibox_count
                 /\ Len(ret.rows[k].details) = Len(arg.results[k].detections)

----------------------------------------------------------------------------
(* Properties of the detection records (SpecDetect) *)

\* C21: every detection record returned by detect_objects has a score in
\* [0, 1] (0..100 hundredths) and a bounding_box of exactly four integers
\* (x1, y1, x2, y2) with x1 < x2 and y1 < y2.
C21_DetectionsWellFormed ==
    (ret.op = "detect" /\ ret.outcome = "returned")
        => \A k \in DOMAIN ret.value :
              LET d == ret.value[k]
              IN  /\ d.score >= 0 /\ d.score <= 100
                  /\ Len(d.bounding_box) = 4
                  /\ d.bounding_box[1] < d.bounding_box[3]
                  /\ d.bounding_box[2] < d.bounding_box[4]

----------------------------------------------------------------------------
(* Properties of the frame results (Spec) *)

----------------------------------------------------------------------------
(* Properties of the frames held by a run (Spec) *)

\* the records of a list that carry pixel data (the 'frame' entry)
WithPixels(list) == {k \in DOMAIN list : "frame" \in DOMAIN list[k]}

\* C23: once detect_objects has returned for a frame, neither the pending
\* frames, nor the results, nor the session state hold that frame's pixel
\* data.
C23_FramesNotRetained ==
    /\ WithPixels(results) = {}
    /\ WithPixels(session.analysis_results) = {}
    /\ pc \in {"detect", "detected"}
          => WithPixels(frames_data) \cap (1..Len(results)) = {}

----------------------------------------------------------------------------
(* Properties of the detector calls of a run (Spec) *)

DetectorCalled == run'.detect_calls > run.detect_calls

\* C24: within a run the detector is called once per sampled frame, in
\* increasing frame order, and the call for a frame is made only when every
\* earlier call of the run has returned or failed: the calls made so far
\* are exactly the frames that have their result, and the call is for the
\* next frame.
C24_DetectorCallsSequential ==
    [][DetectorCalled
        => /\ pc = "detect"
           /\ run'.detect_calls = run.detect_calls + 1
           /\ run.detect_calls = Len(results)
           /\ run.detect_calls < Len(frames_data)
           /\ \/ /\ Len(results') = Len(results) + 1
                 /\ results'[Len(results')].frame
                       = frames_data[run.detect_calls + 1].frame
                 /\ \A k \in DOMAIN results : results'[k] = results[k]
              \/ /\ run.entry = "sample"
                 /\ run.detect_calls \in run'.failed
                 /\ pc' = "idle"]_vars

C24_Witness ==
    /\ pc = "detected"
    /\ run.entry = "upload"
    /\ run.detect_calls = 2
    /\ run.failed = {0}
    /\ Len(results) = 2

----------------------------------------------------------------------------
(* Properties of the store under concurrent callers (SpecConcurrent) *)

\* C25: under every interleaving of save_analysis_results and
\* delete_analysis calls of independent callers, no committed FrameDetection
\* row names a run that is not in the store.
C25_NoOrphanFrameDetections ==
    \A k \in DOMAIN frame_detections :
       frame_detections[k].video_analysis_id \in Ids(video_analyses)

----------------------------------------------------------------------------
(* Properties of the frame inspector (SpecInspector) *)

\* C26: whenever the frame inspector reads a frame (processing_complete is
\* True and analysis_results is not empty), current_frame_index is an index
\* of analysis_results.
C26_FrameIndexInRange ==
    (session.processing_complete /\ session.analysis_results # <<>>)
        => /\ 0 <= session.current_frame_index
           /\ session.current_frame_index < Len(session.analysis_results)

C26_Witness ==
    /\ InspectorShown
    /\ runs = 2
    /\ Len(session.analysis_results) = 1
    /\ run.detect_calls = 1
    /\ session.current_frame_index = 0

----------------------------------------------------------------------------
(* Properties of the auth operations (SpecAuthOps) *)

\* C28: after create_default_admin has returned, the users table holds at
\* least one user with role admin, whatever the table was before.
C28_AdminExistsAfterDefaultAdmin ==
    ret.op = "create_default_admin"
        => \E k \in DOMAIN users : users[k].role = "admin"

\* the users that deactivate_user has deactivated
Deactivated == {k \in DOMAIN users : ~users[k].is_active}

\* C29: an authenticate_user call with the username or the email of a
\* deactivated user returns None whatever the password, and a call that
\* returns a user was made with the name and the password of an active
\* user.
C29_DeactivatedCannotAuthenticate ==
    [][(runs' = runs + 1 /\ arg'.op = "authenticate_user")
        => /\ (\E k \in Deactivated :
                  arg'.name \in {users[k].username, users[k].email})
                 => ret'.info = NoneInfo
           /\ ret'.info # NoneInfo
                 => \E k \in DOMAIN users :
                       /\ users[k].is_active
                       /\ users[k].username = ret'.info.username
                       /\ arg'.name \in {users[k].username, users[k].email}
                       /\ VerifyPassword(arg'.password, users[k].hashed_password)]_vars

----------------------------------------------------------------------------
(* Properties of the /upload endpoint (SpecUpload) *)

\* a client input error: the file name does not end in .json, the body is
\* not valid JSON, or candidateName is missing or empty
ClientError(request) ==
    \/ ~EndsWith(request.filename, DotJson)
    \/ request.body \in {NotUtf8, NotJson}
    \/ /\ IsDict(request.body)
       /\ Get(request.body.fields, "candidateName", "") = ""

\* C30: /upload answers every client input error with status 400, and
\* answers 500 only when the processing of a valid resume fails.
C30_ClientErrorsGet400 ==
    ret.op = "upload"
        => /\ ClientError(arg.request) => ret.status_code = 400
           /\ ret.status_code = 500
                 => ~ClientError(arg.request) /\ ~arg.request.processing_ok

----------------------------------------------------------------------------
(* Properties of the dashboard (SpecDashboard) *)

\* the role recorded in the session at login
SessionRole == Get(auth.user_info, "role", "viewer")

\* C27: no tab runs while the session is unauthenticated; the video analysis
\* tab, from which alone an analysis is started, runs only for a session
\* whose role is admin or analyst; delete_analysis is invoked from the
\* history tab only for a session whose role is admin.
C27_RoleGating ==
    [][/\ (runs' = runs + 1 /\ arg'.op \in {"tab", "delete_analysis"})
             => auth.authenticated
       /\ (runs' = runs + 1 /\ arg'.op = "tab" /\ arg'.name = "analysis")
             => SessionRole \in {"admin", "analyst"}
       /\ (runs' = runs + 1 /\ arg'.op = "tab" /\ arg'.name = "users")
             => SessionRole = "admin"
       /\ (runs' = runs + 1 /\ arg'.op = "delete_analysis")
             => SessionRole = "admin"]_vars

C27_Witness ==
    /\ arg.op = "tab"
    /\ arg.name = "analysis"
    /\ auth.authenticated
    /\ auth.user_info.username = "bob"
    /\ auth.user_info.role = "analyst"

====
